---- MODULE Spec2Model ----
(***************************************************************************)
(* A model of the bibliographic parser of the lab website                  *)
(* (src/js/bibtex-parser.js, class BibTeXParser) and of the calls the page *)
(* makes on its singleton.  Text is a TLA+ string; every regular           *)
(* expression of the source is an operator that scans the string the way   *)
(* the JavaScript engine does (leftmost match, greedy or lazy quantifiers  *)
(* as written in the pattern).                                             *)
(***************************************************************************)
EXTENDS Integers, Sequences, FiniteSets, TLC

VARIABLES
    pc,             \* position of the caller: start, parsed, threw, generated, reparsed,
                    \* displayed, repeated, loadingJSON, loadingBibTeX, loaded, error
    call,           \* the method of the singleton the caller invoked first
    given,          \* the entries the input document was written from
    bibtexString,   \* argument of parseBibTeX
    entries,        \* what extractEntries returned for bibtexString
    entry,          \* argument of a direct parseEntry call
    fields,         \* what parseFields returned for entry.content
    publications,   \* records returned by parseBibTeX / parseEntry / loaded
    source,         \* the record handed to generateBibTeX
    bibtex,         \* what toJSON returned for source
    generated,      \* what generateBibTeX returned for source
    reparsed,       \* parseBibTeX(generated)
    venue,          \* what getDisplayVenue returned for one of the records
    requests,       \* the files loadPublications has asked the server for, in order
    responses,      \* what the server answered to each of them
    error,          \* the message of the Error loadPublications raised, "" for none
    parser,         \* the properties of window.bibtexParser
    again,          \* what the methods returned when they were called a second time
    currentFilter,  \* this.currentFilter of the PublicationsRenderer
    sortBy,         \* this.sortBy
    filteredPublications,   \* this.filteredPublications
    cache,          \* this.cache of the DataLoader: for every path its entry, if any
    now,            \* Date.now()
    calls,          \* the calls of DataLoader.loadJSON and how far each has come
    fetched         \* the path and data of every fetch that was ok and parsed

vars == <<pc, call, given, bibtexString, entries, entry, fields,
          publications, source, bibtex, generated, reparsed, venue,
          requests, responses, error, parser, again,
          currentFilter, sortBy, filteredPublications,
          cache, now, calls, fetched>>

\* the state of the DataLoader
loaderVars == <<cache, now, calls, fetched>>

\* the state of the page apart from the files it asked for
pageVars == <<pc, call, given, bibtexString, entries, entry, fields,
              publications, source, bibtex, generated, reparsed, venue,
              responses, error, parser, again,
              currentFilter, sortBy, filteredPublications>>

----------------------------------------------------------------------------
(* Bounds of the model *)

MaxEntries == 2     \* entries in an input document
MaxFields == 2      \* field assignments in an entry body
MaxAuthors == 3     \* names in an author field
MaxCalls == 2       \* calls of DataLoader.loadJSON
MaxTicks == 3       \* steps of the clock

----------------------------------------------------------------------------
(* Characters and strings *)

LowerCaseLetters == "abcdefghijklmnopqrstuvwxyz"
UpperCaseLetters == "ABCDEFGHIJKLMNOPQRSTUVWXYZ"
DecimalDigits == "0123456789"

CharAt(s, i) == SubSeq(s, i, i)

CharsOf(s) == {CharAt(s, i) : i \in 1..Len(s)}

Letters == CharsOf(LowerCaseLetters) \cup CharsOf(UpperCaseLetters)

Digits == CharsOf(DecimalDigits)

\* \w of a JavaScript regular expression
WordChars == Letters \cup Digits \cup {"_"}

\* \s of a JavaScript regular expression (the members the inputs use)
WhiteSpace == {" ", "\n", "\t", "\r"}

\* the characters that "." does not match and before which "$" matches (flag m)
LineTerminators == {"\n", "\r"}

Min(a, b) == IF a < b THEN a ELSE b

Max(a, b) == IF a > b THEN a ELSE b

\* first index in lo..hi whose character is in cs (member = TRUE) or is not
\* in cs (member = FALSE); 0 if there is none.  Halving keeps the evaluation
\* shallow on long texts.
RECURSIVE First(_, _, _, _, _)
First(s, cs, member, lo, hi) ==
    IF lo > hi THEN 0
    ELSE IF lo = hi THEN (IF (CharAt(s, lo) \in cs) = member THEN lo ELSE 0)
    ELSE LET mid == (lo + hi) \div 2
             left == First(s, cs, member, lo, mid)
         IN IF left # 0 THEN left ELSE First(s, cs, member, mid + 1, hi)

\* last such index in lo..hi, 0 if there is none
RECURSIVE Last(_, _, _, _, _)
Last(s, cs, member, lo, hi) ==
    IF lo > hi THEN 0
    ELSE IF lo = hi THEN (IF (CharAt(s, lo) \in cs) = member THEN lo ELSE 0)
    ELSE LET mid == (lo + hi) \div 2
             right == Last(s, cs, member, mid + 1, hi)
         IN IF right # 0 THEN right ELSE Last(s, cs, member, lo, mid)

\* concatenation of pieces[lo..hi]
RECURSIVE Concat(_, _, _)
Concat(pieces, lo, hi) ==
    IF lo > hi THEN ""
    ELSE IF lo = hi THEN pieces[lo]
    ELSE LET mid == (lo + hi) \div 2
         IN Concat(pieces, lo, mid) \o Concat(pieces, mid + 1, hi)

\* index of character c in alphabet s, 0 when absent
IndexIn(s, c) == First(s, {c}, TRUE, 1, Len(s))

\* the lower-case letter of every upper-case letter
LowerCaseOf ==
    [c \in CharsOf(UpperCaseLetters) |-> CharAt(LowerCaseLetters, IndexIn(UpperCaseLetters, c))]

\* String.prototype.toLowerCase
toLowerCase(s) ==
    Concat([i \in 1..Len(s) |->
               IF CharAt(s, i) \in DOMAIN LowerCaseOf
               THEN LowerCaseOf[CharAt(s, i)] ELSE CharAt(s, i)],
           1, Len(s))

\* first index >= i whose character is not white space (Len(s)+1 if none)
SkipSpace(s, i) ==
    LET k == First(s, WhiteSpace, FALSE, i, Len(s)) IN IF k = 0 THEN Max(i, Len(s) + 1) ELSE k

\* first index >= i whose character is not a word character
SkipWord(s, i) ==
    LET k == First(s, WordChars, FALSE, i, Len(s)) IN IF k = 0 THEN Max(i, Len(s) + 1) ELSE k

\* first index >= i whose character is in set cs, 0 if there is none
IndexOfAny(s, cs, i) == First(s, cs, TRUE, i, Len(s))

\* String.prototype.trim
TrimEnd(s) == SubSeq(s, 1, Last(s, WhiteSpace, FALSE, 1, Len(s)))

trim(s) == TrimEnd(SubSeq(s, SkipSpace(s, 1), Len(s)))

startsWith(s, p) == Len(s) >= Len(p) /\ SubSeq(s, 1, Len(p)) = p

endsWith(s, p) == Len(s) >= Len(p) /\ SubSeq(s, Len(s) - Len(p) + 1, Len(s)) = p

\* String.prototype.includes
includes(s, p) == \E i \in 1..(Len(s) - Len(p) + 1) : SubSeq(s, i, i + Len(p) - 1) = p

\* Array.prototype.join on a sequence of strings
join(list, sep) ==
    Concat([i \in 1..Len(list) |-> IF i = 1 THEN list[i] ELSE sep \o list[i]], 1, Len(list))

\* .replace(/\s+/g, ' '): the first character of a white space run becomes a
\* space, the rest of the run goes
NormalizeSpace(s) ==
    Concat([i \in 1..Len(s) |->
               IF CharAt(s, i) \notin WhiteSpace THEN CharAt(s, i)
               ELSE IF i > 1 /\ CharAt(s, i - 1) \in WhiteSpace THEN "" ELSE " "],
           1, Len(s))

\* .replace(/[{}]/g, '') and the like: every character of cs goes
RemoveChars(s, cs) ==
    Concat([i \in 1..Len(s) |-> IF CharAt(s, i) \in cs THEN "" ELSE CharAt(s, i)], 1, Len(s))

----------------------------------------------------------------------------
(* extractEntries *)

\* .replace(/%.*$/gm, ''): a percent sign and the rest of its line go; a
\* character is inside a comment when the nearest percent sign or line
\* terminator at or before it is a percent sign
RemoveComments(s) ==
    LET marks == LineTerminators \cup {"%"}
        inComment(i) == LET k == Last(s, marks, TRUE, 1, i)
                        IN k # 0 /\ CharAt(s, k) = "%"
    IN Concat([i \in 1..Len(s) |-> IF inComment(i) THEN "" ELSE CharAt(s, i)], 1, Len(s))

\* .replace(/\n\s*\n/g, '\n'): a line feed, the white space after it up to
\* the last line feed of that white space run, become one line feed
RECURSIVE RemoveEmptyLines(_, _)
RemoveEmptyLines(s, from) ==
    LET feed == IndexOfAny(s, {"\n"}, from)
    IN IF feed = 0 THEN SubSeq(s, from, Len(s))
       ELSE LET lastFeed == Last(s, {"\n"}, TRUE, feed + 1, SkipSpace(s, feed + 1) - 1)
            IN SubSeq(s, from, feed)
                   \o RemoveEmptyLines(s, IF lastFeed = 0 THEN feed + 1 ELSE lastFeed + 1)

NoMatch == [found |-> FALSE, type |-> "", key |-> "", content |-> "", next |-> 0]

\* one attempt of /@(\w+)\s*\{\s*([^,]+)\s*,\s*([\s\S]*?)\s*\}/ at index p:
\* the key runs to the first comma, the lazy body stops before the first
\* closing brace that follows the comma
MatchEntryAt(s, p) ==
    IF p > Len(s) \/ CharAt(s, p) # "@" THEN NoMatch
    ELSE LET typeEnd == SkipWord(s, p + 1)
             open == SkipSpace(s, typeEnd)
         IN IF typeEnd = p + 1 \/ open > Len(s) \/ CharAt(s, open) # "{" THEN NoMatch
            ELSE LET comma == IndexOfAny(s, {","}, open + 1)
                     close == IF comma = 0 THEN 0 ELSE IndexOfAny(s, {"}"}, comma + 1)
                 IN IF comma = 0 \/ comma = open + 1 \/ close = 0 THEN NoMatch
                    ELSE LET keyStart == Min(SkipSpace(s, open + 1), comma - 1)
                             bodyStart == Min(SkipSpace(s, comma + 1), close)
                         IN [found |-> TRUE,
                             type |-> SubSeq(s, p + 1, typeEnd - 1),
                             key |-> SubSeq(s, keyStart, comma - 1),
                             content |-> TrimEnd(SubSeq(s, bodyStart, close - 1)),
                             next |-> close + 1]

\* the while loop over entryRegex.exec(cleaned): the next match is at the
\* first at-sign from lastIndex on at which the pattern matches
RECURSIVE ExecEntries(_, _)
ExecEntries(s, lastIndex) ==
    LET at == IndexOfAny(s, {"@"}, lastIndex)
    IN IF at = 0 THEN <<>>
       ELSE LET m == MatchEntryAt(s, at)
            IN IF m.found
               THEN <<[type |-> m.type, key |-> m.key, content |-> m.content]>>
                        \o ExecEntries(s, m.next)
               ELSE ExecEntries(s, at + 1)

extractEntries(text) ==
    LET cleaned == trim(RemoveEmptyLines(RemoveComments(text), 1))
    IN ExecEntries(cleaned, 1)

----------------------------------------------------------------------------
(* parseFields *)

Braces == {"{", "}"}

\* the characters of the class after the backslash in the pattern of line
\* 171.  The grave accent of that class cannot be written in a string of
\* this language, and no input of the model holds one.
AccentChars == {"'", "~", "^", "=", ".", "{", "}"}

\* the value part [^{}]*(?:\{[^{}]*\}[^{}]*)* followed by \}: index of the
\* closing brace of a value that starts at i, 0 when the pattern fails.  A run
\* without braces, then groups of one brace pair without braces inside.
RECURSIVE MatchValue(_, _)
MatchValue(s, i) ==
    LET k == IndexOfAny(s, Braces, i)
    IN IF k = 0 THEN 0
       ELSE IF CharAt(s, k) = "}" THEN k
       ELSE LET j == IndexOfAny(s, Braces, k + 1)
            IN IF j = 0 \/ CharAt(s, j) # "}" THEN 0 ELSE MatchValue(s, j + 1)

\* the first replace of line 171: a backslash and the accent character after
\* it go
RemoveAccents(s) ==
    Concat([i \in 1..Len(s) |->
               IF \/ CharAt(s, i) = "\\" /\ i < Len(s) /\ CharAt(s, i + 1) \in AccentChars
                  \/ CharAt(s, i) \in AccentChars /\ i > 1 /\ CharAt(s, i - 1) = "\\"
               THEN "" ELSE CharAt(s, i)],
           1, Len(s))

\* .replace(/\{\s*\}/g, '')
RECURSIVE RemoveEmptyBraces(_, _)
RemoveEmptyBraces(s, from) ==
    LET open == IndexOfAny(s, {"{"}, from)
    IN IF open = 0 THEN SubSeq(s, from, Len(s))
       ELSE LET close == SkipSpace(s, open + 1)
            IN IF close <= Len(s) /\ CharAt(s, close) = "}"
               THEN SubSeq(s, from, open - 1) \o RemoveEmptyBraces(s, close + 1)
               ELSE SubSeq(s, from, open) \o RemoveEmptyBraces(s, open + 1)

\* lines 169-179: the clean-up of a matched value
CleanFieldValue(raw) ==
    LET fieldValue == trim(NormalizeSpace(RemoveEmptyBraces(RemoveAccents(raw), 1)))
    IN IF startsWith(fieldValue, "{") /\ endsWith(fieldValue, "}")
       THEN SubSeq(fieldValue, 2, Len(fieldValue) - 1)
       ELSE fieldValue

\* fields[fieldName] = fieldValue on the object literal {}: a new name is
\* appended to the keys, a known name keeps its place and takes the new
\* value; assigning a string to __proto__ is ignored by the inherited setter.
\* (Field names of the inputs are never array indices, which Object.keys
\* would list first.)
SetField(table, fieldName, fieldValue) ==
    IF fieldName = "__proto__" THEN table
    ELSE IF \E i \in 1..Len(table) : table[i].name = fieldName
    THEN [i \in 1..Len(table) |->
             IF table[i].name = fieldName
             THEN [name |-> fieldName, value |-> fieldValue]
             ELSE table[i]]
    ELSE Append(table, [name |-> fieldName, value |-> fieldValue])

\* the while loop over fieldRegex.exec(content), for
\* /(\w+)\s*=\s*\{([^{}]*(?:\{[^{}]*\}[^{}]*)*)\}/g.  Every match holds one
\* equals sign that follows its name, so the equals signs are tried from left
\* to right; the name is the word that ends before the sign.
RECURSIVE ExecFields(_, _, _)
ExecFields(s, lastIndex, table) ==
    LET eq == IndexOfAny(s, {"="}, lastIndex)
    IN IF eq = 0 THEN table
       ELSE LET nameEnd == Last(s, WhiteSpace, FALSE, lastIndex, eq - 1)
                before == IF nameEnd = 0 THEN 0 ELSE Last(s, WordChars, FALSE, lastIndex, nameEnd)
                nameStart == IF before = 0 THEN lastIndex ELSE before + 1
                open == SkipSpace(s, eq + 1)
                close == IF open <= Len(s) /\ CharAt(s, open) = "{"
                         THEN MatchValue(s, open + 1) ELSE 0
            IN IF nameEnd = 0 \/ nameStart > nameEnd \/ close = 0
               THEN ExecFields(s, eq + 1, table)
               ELSE ExecFields(s, close + 1,
                               SetField(table,
                                        toLowerCase(SubSeq(s, nameStart, nameEnd)),
                                        CleanFieldValue(SubSeq(s, open + 1, close - 1))))

\* the field table, as the sequence of [name, value] in Object.keys order
parseFields(content) == ExecFields(content, 1, <<>>)

HasField(table, fieldName) == \E i \in 1..Len(table) : table[i].name = fieldName

FieldValue(table, fieldName) ==
    table[CHOOSE i \in 1..Len(table) : table[i].name = fieldName].value

----------------------------------------------------------------------------
(* cleanLatex, parseAuthors, parseKeywords *)

\* .replace(/\\[a-zA-Z]+\{([^}]+)\}/g, '$1')
RECURSIVE RemoveCommandsWithArguments(_, _)
RemoveCommandsWithArguments(s, from) ==
    LET slash == IndexOfAny(s, {"\\"}, from)
    IN IF slash = 0 THEN SubSeq(s, from, Len(s))
       ELSE LET nameEnd == First(s, Letters, FALSE, slash + 1, Len(s))
                close == IF nameEnd > slash + 1 /\ CharAt(s, nameEnd) = "{"
                         THEN IndexOfAny(s, {"}"}, nameEnd + 1) ELSE 0
            IN IF close > nameEnd + 1
               THEN SubSeq(s, from, slash - 1) \o SubSeq(s, nameEnd + 1, close - 1)
                        \o RemoveCommandsWithArguments(s, close + 1)
               ELSE SubSeq(s, from, slash) \o RemoveCommandsWithArguments(s, slash + 1)

\* .replace(/\\[a-zA-Z]/g, ''): a backslash and the ONE letter after it go
RemoveCommands(s) ==
    Concat([i \in 1..Len(s) |->
               IF \/ CharAt(s, i) = "\\" /\ i < Len(s) /\ CharAt(s, i + 1) \in Letters
                  \/ CharAt(s, i) \in Letters /\ i > 1 /\ CharAt(s, i - 1) = "\\"
               THEN "" ELSE CharAt(s, i)],
           1, Len(s))

cleanLatex(text) ==
    trim(NormalizeSpace(RemoveChars(RemoveCommands(RemoveCommandsWithArguments(text, 1)), Braces)))

\* the split with the flag i forgotten: only a lower-case "and" separates
RECURSIVE SplitAuthorsCaseSensitive(_, _, _)
SplitAuthorsCaseSensitive(s, from, pieceStart) ==
    LET space == IndexOfAny(s, WhiteSpace, from)
    IN IF space = 0 THEN <<SubSeq(s, pieceStart, Len(s))>>
       ELSE LET word == SkipSpace(s, space)
                after == IF /\ word + 3 <= Len(s)
                            /\ SubSeq(s, word, word + 2) = "and"
                            /\ CharAt(s, word + 3) \in WhiteSpace
                         THEN SkipSpace(s, word + 3) ELSE 0
            IN IF after # 0
               THEN <<SubSeq(s, pieceStart, space - 1)>>
                        \o SplitAuthorsCaseSensitive(s, after, after)
               ELSE SplitAuthorsCaseSensitive(s, word, pieceStart)

\* authorsString.split(/\s+and\s+/i): pieceStart is where the current piece
\* began, from is where the search for the next separator goes on
RECURSIVE SplitAuthors(_, _, _)
SplitAuthors(s, from, pieceStart) ==
    LET space == IndexOfAny(s, WhiteSpace, from)
    IN IF space = 0 THEN <<SubSeq(s, pieceStart, Len(s))>>
       ELSE LET word == SkipSpace(s, space)
                after == IF /\ word + 3 <= Len(s)
                            /\ toLowerCase(SubSeq(s, word, word + 2)) = "and"
                            /\ CharAt(s, word + 3) \in WhiteSpace
                         THEN SkipSpace(s, word + 3) ELSE 0
            IN IF after # 0
               THEN <<SubSeq(s, pieceStart, space - 1)>> \o SplitAuthors(s, after, after)
               ELSE SplitAuthors(s, word, pieceStart)

parseAuthors(authorsString) ==
    LET authorNames == SplitAuthors(authorsString, 1, 1)
    IN [i \in 1..Len(authorNames) |->
           [name |-> trim(authorNames[i]), is_highlighted |-> FALSE]]

\* keywordsString.split(/[,;]\s*/)
RECURSIVE SplitKeywords(_, _)
SplitKeywords(s, from) ==
    LET sep == IndexOfAny(s, {",", ";"}, from)
    IN IF sep = 0 THEN <<SubSeq(s, from, Len(s))>>
       ELSE <<SubSeq(s, from, sep - 1)>> \o SplitKeywords(s, SkipSpace(s, sep + 1))

parseKeywords(keywordsString) ==
    LET trimmed == [i \in 1..Len(SplitKeywords(keywordsString, 1)) |->
                       trim(SplitKeywords(keywordsString, 1)[i])]
    IN SelectSeq(trimmed, LAMBDA keyword : Len(keyword) > 0)

----------------------------------------------------------------------------
(* JavaScript values.  Every value has the same shape, so that any two can *)
(* be compared: kind says which of the other components is meaningful.    *)

Value(kind, str, num, items, authors, map) ==
    [kind |-> kind, str |-> str, num |-> num, items |-> items, authors |-> authors, map |-> map]

Undefined == Value("undefined", "", 0, <<>>, <<>>, <<>>)

Str(s) == Value("string", s, 0, <<>>, <<>>, <<>>)

Num(n) == Value("number", "", n, <<>>, <<>>, <<>>)

\* an array of strings (keywords)
StringArray(items) == Value("array", "", 0, items, <<>>, <<>>)

\* an array of {name, is_highlighted} objects
AuthorArray(authors) == Value("array", "", 0, <<>>, authors, <<>>)

\* a mapping from language code to text, as the sequence of <<code, text>>
LanguageMap(map) == Value("object", "", 0, <<>>, <<>>, map)

\* a built-in function; str is what String() makes of it
NativeFunction(name) ==
    Value("function", "function " \o name \o "() { [native code] }", 0, <<>>, <<>>, <<>>)

\* the decimal digits of a natural number
RECURSIVE NatToString(_)
NatToString(n) ==
    IF n < 10 THEN CharAt(DecimalDigits, n + 1)
    ELSE NatToString(n \div 10) \o CharAt(DecimalDigits, (n % 10) + 1)

\* String(value), also the conversion of a template literal and of a
\* property key
StringOf(v) ==
    CASE v.kind = "undefined" -> "undefined"
      [] v.kind = "string" -> v.str
      [] v.kind = "number" -> IF v.num < 0 THEN "-" \o NatToString(-v.num) ELSE NatToString(v.num)
      [] v.kind = "array" ->
            IF v.authors # <<>>
            THEN join([i \in 1..Len(v.authors) |-> "[object Object]"], ",")
            ELSE join(v.items, ",")
      [] v.kind = "object" -> "[object Object]"
      [] v.kind = "function" -> v.str

\* the truthiness test of if (...), ||, && and !
Truthy(v) ==
    CASE v.kind = "undefined" -> FALSE
      [] v.kind = "string" -> v.str # ""
      [] v.kind = "number" -> v.num # 0
      [] OTHER -> TRUE

\* what an object literal inherits from Object.prototype: a lookup
\* table[key] finds these when the literal has no own property of that name
ObjectPrototypeFunctions ==
    {"constructor", "hasOwnProperty", "isPrototypeOf", "propertyIsEnumerable",
     "toLocaleString", "toString", "valueOf", "__defineGetter__",
     "__defineSetter__", "__lookupGetter__", "__lookupSetter__"}

Inherited(key) ==
    IF key = "constructor" THEN NativeFunction("Object")
    ELSE IF key \in ObjectPrototypeFunctions THEN NativeFunction(key)
    ELSE IF key = "__proto__" THEN LanguageMap(<<>>)
    ELSE Undefined

\* table[key] on an object literal given as the sequence of its <<name,
\* value>> properties
Lookup(table, key) ==
    IF \E i \in 1..Len(table) : table[i][1] = key
    THEN Str(table[CHOOSE i \in 1..Len(table) : table[i][1] = key][2])
    ELSE Inherited(key)

\* a record (publication) is a function from property names to values
Get(object, key) == IF key \in DOMAIN object THEN object[key] ELSE Undefined

Put(object, key, v) ==
    [k \in (DOMAIN object) \cup {key} |-> IF k = key THEN v ELSE object[k]]

----------------------------------------------------------------------------
(* The tables of the parser *)

fieldMappings ==
    << <<"title", "title">>, <<"author", "authors">>, <<"year", "year">>,
       <<"month", "month">>, <<"journal", "journal">>,
       <<"booktitle", "conference">>, <<"volume", "volume">>,
       <<"number", "issue">>, <<"pages", "pages">>,
       <<"publisher", "publisher">>, <<"doi", "doi">>, <<"url", "url">>,
       <<"isbn", "isbn">>, <<"issn", "issn">>, <<"abstract", "abstract">>,
       <<"keywords", "keywords">>, <<"note", "note">>,
       <<"series", "series">>, <<"edition", "edition">>,
       <<"chapter", "chapter">>, <<"school", "school">>,
       <<"institution", "institution">>, <<"organization", "organization">>,
       <<"address", "address">>, <<"howpublished", "how_published">>,
       <<"type", "publication_type">>, <<"venue", "venue">>,
       <<"location", "location">>, <<"editor", "editors">>,
       <<"copyright", "copyright">>, <<"language", "language">>,
       <<"isbn13", "isbn13">>, <<"issn13", "issn13">>, <<"pmid", "pmid">>,
       <<"pmcid", "pmcid">>, <<"arxiv", "arxiv_id">>, <<"code", "code_url">>,
       <<"data", "data_url">>, <<"slides", "slides_url">>,
       <<"video", "video_url">>, <<"blog", "blog_url">>,
       <<"press", "press_url">>, <<"award", "award">>,
       <<"impact_factor", "impact_factor">>,
       <<"citation_count", "citation_count">>,
       <<"altmetric", "altmetric_score">>,
       <<"research_area", "research_area">>,
       <<"research_group", "research_group">>, <<"funding", "funding">>,
       <<"acknowledgments", "acknowledgments">>,
       <<"collaborators", "collaborators">>,
       <<"competitions", "competitions">>, <<"patents", "patents">>,
       <<"software", "software">>, <<"datasets", "datasets">>,
       <<"presentations", "presentations">>,
       <<"media_coverage", "media_coverage">>,
       <<"public_engagement", "public_engagement">>,
       <<"policy_impact", "policy_impact">>,
       <<"industry_collaboration", "industry_collaboration">>,
       <<"international_collaboration", "international_collaboration">>,
       <<"student_authors", "student_authors">>,
       <<"early_career_authors", "early_career_authors">>,
       <<"corresponding_author", "corresponding_author">>,
       <<"equal_contribution", "equal_contribution">>,
       <<"senior_author", "senior_author">> >>

typeMapping ==
    << <<"article", "journal">>, <<"inproceedings", "conference">>,
       <<"incollection", "book_chapter">>, <<"book", "book">>,
       <<"phdthesis", "thesis">>, <<"mastersthesis", "thesis">>,
       <<"techreport", "report">>, <<"misc", "other">>,
       <<"unpublished", "preprint">>, <<"inbook", "book_chapter">>,
       <<"proceedings", "conference">>, <<"booklet", "other">>,
       <<"manual", "other">>, <<"patent", "patent">>,
       <<"dataset", "dataset">>, <<"software", "software">> >>

reverseTypeMapping ==
    << <<"journal", "article">>, <<"conference", "inproceedings">>,
       <<"book_chapter", "incollection">>, <<"book", "book">>,
       <<"thesis", "phdthesis">>, <<"report", "techreport">>,
       <<"other", "misc">>, <<"preprint", "unpublished">>,
       <<"patent", "patent">>, <<"dataset", "misc">>,
       <<"software", "misc">> >>

\* the fixed vocabulary of internal types
InternalTypes == {typeMapping[i][2] : i \in 1..Len(typeMapping)}

mapEntryType(bibtexType) ==
    LET mapped == Lookup(typeMapping, toLowerCase(bibtexType))
    IN IF Truthy(mapped) THEN mapped ELSE Str("other")

\* ourType is the value of publication.type
reverseMapType(ourType) ==
    LET mapped == Lookup(reverseTypeMapping, StringOf(ourType))
    IN IF Truthy(mapped) THEN mapped ELSE Str("misc")

----------------------------------------------------------------------------
(* processField *)

HexDigits == "0123456789abcdef"

\* the number a run of digits denotes in the radix
RECURSIVE DigitsValue(_, _)
DigitsValue(run, radix) ==
    IF run = "" THEN 0
    ELSE DigitsValue(SubSeq(run, 1, Len(run) - 1), radix) * radix
            + (IndexIn(HexDigits, toLowerCase(CharAt(run, Len(run)))) - 1)

\* parseInt(string) without a radix: leading white space, a sign, the prefix
\* 0x for radix 16, then the longest run of digits; NaN when the run is empty
parseInt(string) ==
    LET number(negative, magnitude) == IF negative THEN -magnitude ELSE magnitude
        result(negative, run, radix) ==
            [isNaN |-> run = "", value |-> number(negative, DigitsValue(run, radix))]
        upTo(negative, first, stop, radix) ==
            result(negative,
                   SubSeq(string, first, IF stop = 0 THEN Len(string) ELSE stop - 1), radix)
        digits(negative, first, digitSet, radix) ==
            upTo(negative, first, First(string, digitSet, FALSE, first, Len(string)), radix)
        prefixed(negative, afterSign) ==
            IF /\ afterSign + 1 <= Len(string)
               /\ toLowerCase(SubSeq(string, afterSign, afterSign + 1)) = "0x"
            THEN digits(negative, afterSign + 2,
                        CharsOf(HexDigits) \cup CharsOf("ABCDEF"), 16)
            ELSE digits(negative, afterSign, Digits, 10)
        signed(start) ==
            IF start <= Len(string) /\ CharAt(string, start) \in {"+", "-"}
            THEN prefixed(CharAt(string, start) = "-", start + 1)
            ELSE prefixed(FALSE, start)
    IN signed(SkipSpace(string, 1))

\* fieldName is the value found in fieldMappings; the switch compares it with
\* ===, so a value that is not a string falls to the default case
processField(fieldName, value) ==
    LET name == IF fieldName.kind = "string" THEN fieldName.str ELSE ""
        \* parseInt(value) || value
        year(parsed) ==
            IF ~ parsed.isNaN /\ parsed.value # 0 THEN Num(parsed.value) ELSE Str(value)
    IN CASE name = "authors" -> AuthorArray(parseAuthors(value))
         [] name = "keywords" -> StringArray(parseKeywords(value))
         [] name = "year" -> year(parseInt(value))
         [] name \in {"volume", "issue", "pages"} -> Str(value)
         [] name \in {"title", "abstract"} -> Str(cleanLatex(value))
         [] name \in {"url", "doi", "arxiv", "pmid", "pmcid"} -> Str(value)
         [] OTHER -> Str(cleanLatex(value))

----------------------------------------------------------------------------
(* setComputedFields *)

\* month.match(/\b(19|20)\d{2}\b/): the places where the pattern matches
YearMatches(s) ==
    {p \in 1..(Len(s) - 3) :
        /\ SubSeq(s, p, p + 1) \in {"19", "20"}
        /\ CharAt(s, p + 2) \in Digits
        /\ CharAt(s, p + 3) \in Digits
        /\ (p = 1 \/ CharAt(s, p - 1) \notin WordChars)
        /\ (p + 3 = Len(s) \/ CharAt(s, p + 4) \notin WordChars)}

\* Object.values(title)[0] || ... of line 281
DisplayTitleOf(title) ==
    LET text(code) ==
            IF \E i \in 1..Len(title.map) : title.map[i][1] = code
            THEN Str(title.map[CHOOSE i \in 1..Len(title.map) : title.map[i][1] = code][2])
            ELSE Undefined
    IN IF Truthy(text("en")) THEN text("en")
       ELSE IF Truthy(text("zh")) THEN text("zh")
       ELSE IF title.map # <<>> THEN Str(title.map[1][2])
       ELSE Undefined

\* lines 279-284
SetDisplayTitle(publication) ==
    LET title == Get(publication, "title")
    IN IF title.kind \in {"object", "array"}
       THEN Put(publication, "display_title",
                IF title.kind = "object" THEN DisplayTitleOf(title) ELSE Undefined)
       ELSE Put(publication, "display_title", title)

\* the length property of a value (line 287)
LengthOf(v) ==
    CASE v.kind = "string" -> Len(v.str)
      [] v.kind = "array" -> Len(v.items) + Len(v.authors)
      [] v.kind = "function" -> 1
      [] OTHER -> 0

\* lines 286-289: publication.authors.map exists on arrays only; on any other
\* value with a positive length the call raises a TypeError
AuthorsMapThrows(publication) ==
    LET authors == Get(publication, "authors")
    IN Truthy(authors) /\ LengthOf(authors) > 0 /\ authors.kind # "array"

SetAuthorString(publication) ==
    LET authors == Get(publication, "authors")
    IN IF Truthy(authors) /\ LengthOf(authors) > 0
       THEN Put(publication, "author_string",
                Str(join([i \in 1..Len(authors.authors) |-> authors.authors[i].name]
                             \o [i \in 1..Len(authors.items) |-> ""], ", ")))
       ELSE publication

\* lines 291-298 with the first two tests exchanged
SetDisplayVenueConferenceFirst(publication) ==
    IF Truthy(Get(publication, "conference"))
    THEN Put(publication, "display_venue", Get(publication, "conference"))
    ELSE IF Truthy(Get(publication, "journal"))
    THEN Put(publication, "display_venue", Get(publication, "journal"))
    ELSE publication

\* lines 291-298
SetDisplayVenue(publication) ==
    IF Truthy(Get(publication, "journal"))
    THEN Put(publication, "display_venue", Get(publication, "journal"))
    ELSE IF Truthy(Get(publication, "conference"))
    THEN Put(publication, "display_venue", Get(publication, "conference"))
    ELSE IF Truthy(Get(publication, "booktitle"))
    THEN Put(publication, "display_venue", Get(publication, "booktitle"))
    ELSE publication

\* lines 300-307
SetYearFromMonth(publication) ==
    LET \* the leftmost match
        first(found) == CHOOSE p \in found : \A other \in found : p <= other
        year(text, at) == Num(parseInt(SubSeq(text, at, at + 3)).value)
        matched(month, found) ==
            IF ~ Truthy(Get(publication, "year")) /\ Truthy(month) /\ found # {}
            THEN Put(publication, "year", year(StringOf(month), first(found)))
            ELSE publication
    IN matched(Get(publication, "month"), YearMatches(StringOf(Get(publication, "month"))))

\* lines 309-316 without the tests of publication.url
SetGeneratedUrlOverwriting(publication) ==
    IF Truthy(Get(publication, "doi"))
    THEN Put(publication, "url", Str("https://doi.org/" \o StringOf(Get(publication, "doi"))))
    ELSE publication

\* lines 309-316
SetGeneratedUrl(publication) ==
    LET withDoi ==
            IF Truthy(Get(publication, "doi")) /\ ~ Truthy(Get(publication, "url"))
            THEN Put(publication, "url",
                     Str("https://doi.org/" \o StringOf(Get(publication, "doi"))))
            ELSE publication
    IN IF Truthy(Get(withDoi, "arxiv")) /\ ~ Truthy(Get(withDoi, "url"))
       THEN Put(withDoi, "url",
                Str("https://arxiv.org/abs/" \o StringOf(Get(withDoi, "arxiv"))))
       ELSE withDoi

\* the record as it is when the method returns or raises: threw says which
setComputedFields(publication) ==
    LET titled == SetDisplayTitle(publication)
    IN IF AuthorsMapThrows(titled)
       THEN [threw |-> TRUE, publication |-> titled]
       ELSE [threw |-> FALSE,
             publication |->
                 SetGeneratedUrl(SetYearFromMonth(SetDisplayVenue(SetAuthorString(titled))))]

----------------------------------------------------------------------------
(* parseEntry, parseBibTeX *)

\* lines 129-137: one step of the forEach over Object.keys(fields), the field
\* table being lower-cased by parseFields already; this.fieldMappings is read
\* from the singleton
MapField(publication, field) ==
    LET ourField == Lookup(parser.fieldMappings, toLowerCase(field.name))
    IN IF Truthy(ourField)
       THEN Put(publication, StringOf(ourField), processField(ourField, field.value))
       ELSE Put(publication, field.name, Str(field.value))

RECURSIVE MapFields(_, _, _)
MapFields(publication, table, i) ==
    IF i > Len(table) THEN publication
    ELSE MapFields(MapField(publication, table[i]), table, i + 1)

\* lines 119-147: the record before setComputedFields, table being the
\* result of parseFields(rawEntry.content)
MappedPublication(rawEntry, table) ==
    LET initial == [id |-> Str(rawEntry.key),
                    type |-> mapEntryType(rawEntry.type),
                    raw_bibtex |-> Str("@" \o rawEntry.type \o "{" \o rawEntry.key
                                           \o ", " \o rawEntry.content \o "}")]
        withAuthors(mapped) ==
            IF HasField(table, "author") /\ FieldValue(table, "author") # ""
            THEN Put(mapped, "authors", AuthorArray(parseAuthors(FieldValue(table, "author"))))
            ELSE mapped
        withKeywords(mapped) ==
            IF HasField(table, "keywords") /\ FieldValue(table, "keywords") # ""
            THEN Put(mapped, "keywords",
                     StringArray(parseKeywords(FieldValue(table, "keywords"))))
            ELSE mapped
    IN withKeywords(withAuthors(MapFields(initial, table, 1)))

\* the result of parseEntry: threw tells whether it raised, publication is
\* the record, fields the table parseFields made on the way
parseEntry(rawEntry) ==
    LET result(table, computed) ==
            [threw |-> computed.threw, publication |-> computed.publication,
             fields |-> table]
        done(table) == result(table, setComputedFields(MappedPublication(rawEntry, table)))
    IN done(parseFields(rawEntry.content))

\* entries.map(entry => this.parseEntry(entry)): an exception of one
\* parseEntry ends the whole call
parseBibTeX(text) ==
    LET collected(extracted, results) ==
            [threw |-> \E i \in 1..Len(results) : results[i].threw,
             entries |-> extracted,
             fields |-> [i \in 1..Len(results) |-> results[i].fields],
             publications |-> [i \in 1..Len(results) |-> results[i].publication]]
        mapped(extracted) ==
            collected(extracted, [i \in 1..Len(extracted) |-> parseEntry(extracted[i])])
    IN mapped(extractEntries(text))

----------------------------------------------------------------------------
(* toJSON, formatFieldForBibTeX, generateBibTeX *)

\* lines 374-377
EscapeSpecial(s) ==
    Concat([i \in 1..Len(s) |->
               IF CharAt(s, i) \in {"&", "%", "#"} THEN "\\" \o CharAt(s, i) ELSE CharAt(s, i)],
           1, Len(s))

formatFieldForBibTeX(fieldName, value) ==
    IF fieldName = "authors" /\ value.kind = "array"
    THEN join([i \in 1..Len(value.authors) |-> value.authors[i].name]
                  \o [i \in 1..Len(value.items) |-> ""], " and ")
    ELSE IF value.kind = "array"
    THEN join([i \in 1..Len(value.authors) |-> "[object Object]"] \o value.items, ", ")
    ELSE IF value.kind = "string" THEN EscapeSpecial(value.str)
    ELSE StringOf(value)

\* lines 330-334: the fields in the order of fieldMappings
ReverseFields(publication) ==
    LET present ==
            SelectSeq(parser.fieldMappings, LAMBDA pair : Truthy(Get(publication, pair[2])))
    IN [i \in 1..Len(present) |->
           [name |-> present[i][1],
            value |-> formatFieldForBibTeX(present[i][2], Get(publication, present[i][2]))]]

toJSON(publication) ==
    [entry_type |-> reverseMapType(Get(publication, "type")),
     citation_key |-> Get(publication, "id"),
     fields |-> ReverseFields(publication)]

\* lines 389-398 with a comma after every field
GenerateFromCommaAlways(json) ==
    LET line(index) ==
            "  " \o json.fields[index].name \o " = {" \o json.fields[index].value \o "},\n"
    IN "@" \o StringOf(json.entry_type) \o "{" \o StringOf(json.citation_key) \o ",\n"
           \o Concat([index \in 1..Len(json.fields) |-> line(index)], 1, Len(json.fields))
           \o "}"

\* lines 389-398, json being the result of toJSON
GenerateFrom(json) ==
    LET line(index) ==
            "  " \o json.fields[index].name \o " = {" \o json.fields[index].value \o "}"
                \o (IF index = Len(json.fields) THEN "" ELSE ",") \o "\n"
    IN "@" \o StringOf(json.entry_type) \o "{" \o StringOf(json.citation_key) \o ",\n"
           \o Concat([index \in 1..Len(json.fields) |-> line(index)], 1, Len(json.fields))
           \o "}"

generateBibTeX(publication) == GenerateFrom(toJSON(publication))

----------------------------------------------------------------------------
(* PublicationsRenderer (src/js/app.js) *)

\* app.js lines 941-956
getDisplayVenue(pub) ==
    LET \* v.en || v.zh
        text(v, code) ==
            IF \E i \in 1..Len(v.map) : v.map[i][1] = code
            THEN Str(v.map[CHOOSE i \in 1..Len(v.map) : v.map[i][1] = code][2])
            ELSE Undefined
        either(first, second) == IF Truthy(first) THEN first ELSE second
        \* typeof v === 'object' ? v.en || v.zh : v
        localized(v) ==
            IF v.kind \in {"object", "array"} THEN either(text(v, "en"), text(v, "zh")) ELSE v
    IN IF Truthy(Get(pub, "journal")) THEN localized(Get(pub, "journal"))
       ELSE IF Truthy(Get(pub, "conference")) \/ Truthy(Get(pub, "booktitle"))
       THEN localized(either(Get(pub, "conference"), Get(pub, "booktitle")))
       ELSE IF Truthy(Get(pub, "school"))
       THEN Str("PhD Thesis, " \o StringOf(Get(pub, "school")))
       ELSE IF Truthy(Get(pub, "howpublished")) THEN Get(pub, "howpublished")
       ELSE Str("Unknown Venue")

\* new Date().getFullYear() (app.js line 908) on the day of the visit
CurrentYear == 2026

\* app.js lines 911-919
SetAuthorStringOfPage(pub) ==
    LET authors == Get(pub, "authors")
        name(author) ==
            IF author.is_highlighted
            THEN "<span class=\"author-highlighted\">" \o author.name \o "</span>"
            ELSE author.name
    IN IF authors.kind = "array"
       THEN Put(pub, "author_string",
                Str(join([i \in 1..Len(authors.authors) |-> name(authors.authors[i])]
                             \o authors.items, ", ")))
       ELSE pub

\* app.js lines 961-978
setLanguageContent(pub, lang) ==
    LET text(v, code) ==
            IF \E i \in 1..Len(v.map) : v.map[i][1] = code
            THEN Str(v.map[CHOOSE i \in 1..Len(v.map) : v.map[i][1] = code][2])
            ELSE Undefined
        or(first, second) == IF Truthy(first) THEN first ELSE second
        \* Object.values(v)[0]
        first(v) ==
            IF v.map # <<>> THEN Str(v.map[1][2])
            ELSE IF v.items # <<>> THEN Str(v.items[1])
            ELSE Undefined
        title(v) ==
            IF v.kind \in {"object", "array"}
            THEN or(text(v, lang), or(text(v, "en"), or(text(v, "zh"), first(v))))
            ELSE v
        abstract(v) ==
            IF v.kind \in {"object", "array"}
            THEN or(text(v, lang), or(text(v, "en"), or(text(v, "zh"), Str(""))))
            ELSE or(v, Str(""))
        keywords == or(Get(pub, "keywords_" \o lang), or(Get(pub, "keywords"), StringArray(<<>>)))
    IN Put(Put(Put(pub, "display_title", title(Get(pub, "title"))),
               "display_abstract", abstract(Get(pub, "abstract"))),
           "display_keywords", keywords)

\* the body of the forEach of processPublications (app.js lines 904-932);
\* the id made from the clock and a random number is one fixed text here
EnhancedPublication(pub, lang) ==
    LET or(first, second) == IF Truthy(first) THEN first ELSE second
        year(parsed) == IF parsed.isNaN \/ parsed.value = 0 THEN CurrentYear ELSE parsed.value
        required(p) ==
            Put(Put(Put(p, "id", or(Get(p, "id"), Str("pub-0-0"))),
                    "type", or(Get(p, "type"), Str("other"))),
                "year", Num(year(parseInt(StringOf(Get(p, "year"))))))
        withVenue(p) == Put(p, "display_venue", getDisplayVenue(p))
        withBibtex(p) ==
            IF Truthy(Get(p, "bibtex")) THEN p ELSE Put(p, "bibtex", Str(generateBibTeX(p)))
    IN setLanguageContent(withBibtex(withVenue(SetAuthorStringOfPage(required(pub)))), lang)

\* Array.prototype.sort with (a, b) => b.year - a.year (app.js line 935):
\* newest first, records of the same year keep their order
RECURSIVE SortByYear(_)
SortByYear(pubs) ==
    IF pubs = <<>> THEN <<>>
    ELSE LET newest == CHOOSE i \in 1..Len(pubs) :
                 \A j \in 1..Len(pubs) :
                     \/ pubs[j]["year"].num < pubs[i]["year"].num
                     \/ pubs[j]["year"].num = pubs[i]["year"].num /\ i <= j
             rest(i) == SubSeq(pubs, 1, i - 1) \o SubSeq(pubs, i + 1, Len(pubs))
             from(i) == <<pubs[i]>> \o SortByYear(rest(i))
         IN from(newest)

\* app.js lines 903-936
processPublications(pubs, lang) ==
    SortByYear([i \in 1..Len(pubs) |-> EnhancedPublication(pubs[i], lang)])

\* app.js lines 1019-1027
applyFilter(pubs, filter) ==
    IF filter = "all" THEN pubs
    ELSE SelectSeq(pubs, LAMBDA pub : Get(pub, "type") = Str(filter))

\* the order localeCompare puts the characters of the titles in: the blank,
\* the digits, the letters
CollationOrder == " 0123456789abcdefghijklmnopqrstuvwxyz"

\* a.localeCompare(b) < 0 for lower-case texts of these characters
ComesBefore(a, b) ==
    LET differ == {k \in 1..Min(Len(a), Len(b)) : CharAt(a, k) # CharAt(b, k)}
        at(k) == IndexIn(CollationOrder, CharAt(a, k)) < IndexIn(CollationOrder, CharAt(b, k))
        first(S) == CHOOSE k \in S : \A other \in S : k <= other
    IN IF differ = {} THEN Len(a) < Len(b) ELSE at(first(differ))

\* the comparison function of lines 1042-1059 is negative for (a, b), the
\* order being 'desc' (line 854): a goes before b
Precedes(a, b, by) ==
    LET number(parsed) == IF parsed.isNaN THEN 0 ELSE parsed.value
        year(pub) == number(parseInt(StringOf(Get(pub, "year"))))
        or(first, second) == IF Truthy(first) THEN first ELSE second
        title(pub) ==
            toLowerCase(StringOf(or(Get(pub, "display_title"), or(Get(pub, "title"), Str("")))))
    IN CASE by = "year" -> year(b) < year(a)
         [] by = "title" -> ComesBefore(title(a), title(b))
         [] OTHER -> FALSE

\* this.filteredPublications.sort(...) of line 1042: the sort is stable
RECURSIVE sortPublications(_, _)
sortPublications(pubs, by) ==
    IF pubs = <<>> THEN <<>>
    ELSE LET least == CHOOSE i \in 1..Len(pubs) :
                 \A j \in 1..Len(pubs) :
                     \/ Precedes(pubs[i], pubs[j], by)
                     \/ ~Precedes(pubs[j], pubs[i], by) /\ i <= j
             rest(i) == SubSeq(pubs, 1, i - 1) \o SubSeq(pubs, i + 1, Len(pubs))
             from(i) == <<pubs[i]>> \o sortPublications(rest(i), by)
         IN from(least)

\* DataLoader.loadJSON (activities-renderer.js lines 142-167) on a response:
\* the call returns the data when the response arrived, its status is ok and
\* its body is JSON, and raises in every other case
loadJSON(response) ==
    [threw |-> ~(response.arrives /\ response.ok /\ response.valid),
     data |-> response.config]

\* the text of the Error of app.js line 891
FailedToLoad == "Failed to load publications from any source"

----------------------------------------------------------------------------
(* The inputs of the calls *)

CitationKeys == {"k1", "k2"}

\* entry types: every name of typeMapping, a name in mixed case, a name the
\* table does not know, and a name every object literal inherits
EntryTypeNames ==
    {typeMapping[i][1] : i \in 1..Len(typeMapping)}
        \cup {"InProceedings", "webpage", "constructor"}

AuthorNames == {"Jane Smith", "J. Doe"}

AuthorSeparators == {" and ", " AND ", " And "}

RECURSIVE SequencesOfLength(_, _)
SequencesOfLength(S, n) ==
    IF n = 0 THEN {<<>>}
    ELSE {Append(q, x) : q \in SequencesOfLength(S, n - 1), x \in S}

\* one to MaxAuthors names
AuthorLists == UNION {SequencesOfLength(AuthorNames, n) : n \in 1..MaxAuthors}

\* an author field as a bibliography writes it
AuthorValues == {join(names, sep) : names \in AuthorLists, sep \in AuthorSeparators}

Assignment(name, value) == [name |-> name, value |-> value]

\* the name = {value} assignments of the entry bodies
Assignments ==
    {Assignment("author", "Jane Smith and J. Doe"),
              Assignment("year", "2020"),
              Assignment("doi", "10.1/x"),
              Assignment("month", "Jan 2019"),
              Assignment("custom_metric", "42"),
              Assignment("authors", "John"),
              Assignment("display_title", "X")}

\* the assignments that name a venue
VenueAssignments ==
    {Assignment("journal", "Nature"),
     Assignment("booktitle", "Some Conf"),
     Assignment("school", "MIT"),
     Assignment("howpublished", "Online")}

\* the assignments a link is kept or made from
LinkAssignments ==
    {Assignment("doi", "10.1/x"),
     Assignment("url", "https://example.org/p"),
     Assignment("arxiv", "2101.00001")}

\* values with one LaTeX command that has an argument: the text before the
\* command, the command name, its argument and the text after it
CommandValues ==
    {[pre |-> "The ", name |-> "textbf", arg |-> "Bold", post |-> " Claim"],
     [pre |-> "", name |-> "emph", arg |-> "B", post |-> ""],
     [pre |-> "A  ", name |-> "textit", arg |-> "b c", post |-> " {D}"],
     [pre |-> "{DNA} in ", name |-> "emph", arg |-> "E. coli", post |-> ""]}

CommandText(t) == t.pre \o "\\" \o t.name \o "{" \o t.arg \o "}" \o t.post

CommandAssignments ==
    {Assignment(n, CommandText(t)) : n \in {"title", "abstract"}, t \in CommandValues}

\* values with one bare LaTeX command (no brace argument): the text before
\* the command, the command name and the text after it
BareCommandValues ==
    {[pre |-> "The ", name |-> "LaTeX", post |-> " Book"],
     [pre |-> "na", name |-> "i", post |-> " ve"],
     [pre |-> "a ", name |-> "alpha", post |-> " b"],
     [pre |-> "", name |-> "ldots", post |-> ""]}

BareCommandText(t) == t.pre \o "\\" \o t.name \o t.post

BareCommandAssignments ==
    {Assignment(n, BareCommandText(t)) : n \in {"title", "abstract"}, t \in BareCommandValues}

\* the identifier-like fields (processField lines 198-200 and 204-208) with
\* a plain value and with a value that has braces and a command inside
IdentifierFields == {"url", "doi", "arxiv", "pmid", "pmcid", "volume", "number", "pages"}

IdentifierAssignments ==
    {Assignment(n, v) : n \in IdentifierFields, v \in {"12", "a{b}\\c d"}}

\* year values: integers, zero among them, and texts that are no number
YearAssignments ==
    {Assignment("year", v) : v \in {"2020", "1999", "0", "007", "n.d.", "in press"}}

\* values with brace groups: one pair around the whole value, two groups
\* at its ends, a group at one end only
BraceAssignments ==
    {Assignment(n, v) :
        n \in {"publisher", "title"},
        v \in {"{Deep Learning}", "{NASA} and {ESA}", "{DNA} repair", "The {DNA}"}}

\* fields named like the attributes parseEntry sets itself (lines 120-122)
IdentityAssignments ==
    {Assignment("id", "other"), Assignment("raw_bibtex", "x"),
     Assignment("type", "techreport"), Assignment("ID", "Other")}

\* keyword lists: two keywords, and separators only
KeywordAssignments ==
    {Assignment("keywords", "ml; nlp"), Assignment("keywords", ",")}

\* values with the characters formatFieldForBibTeX escapes (lines 375-377)
EscapeAssignments ==
    {Assignment("title", "A & B"), Assignment("title", "50% off"),
     Assignment("title", "C# x"), Assignment("note", "R&D"),
     Assignment("url", "http://x.org/a%20b")}

\* the sequences of at most MaxFields assignments of S with different names
RECURSIVE BodiesOfLength(_, _)
BodiesOfLength(S, n) ==
    IF n = 0 THEN {<<>>}
    ELSE UNION {{Append(body, a) :
                    a \in {x \in S : \A i \in 1..Len(body) : body[i].name # x.name}} :
                body \in BodiesOfLength(S, n - 1)}

Bodies(S) == UNION {BodiesOfLength(S, n) : n \in 0..MaxFields}

AssignmentText(a) == a.name \o " = {" \o a.value \o "}"

\* the text between the comma after the key and the closing brace
BodyText(body) == join([i \in 1..Len(body) |-> AssignmentText(body[i])], ", ")

\* an entry as it stands in a bibliography file, one assignment a line; an
\* entry that is not closed lacks the final brace
EntryText(e) ==
    "@" \o e.type \o "{" \o e.key \o ",\n"
        \o join([i \in 1..Len(e.body) |-> "  " \o AssignmentText(e.body[i])], ",\n")
        \o (IF e.closed THEN "\n}" ELSE "\n")

DocumentText(doc) == join([i \in 1..Len(doc) |-> EntryText(doc[i])], "\n\n")

GivenEntry(type, key, body, closed) ==
    [type |-> type, key |-> key, body |-> body, closed |-> closed]

\* the bodies of the entries of a document: a title, and a title with a
\* note that quotes an entry
DocumentBodies ==
    {<<Assignment("title", "A")>>,
     <<Assignment("title", "A"), Assignment("note", "see @misc{x, y}")>>}

\* the entries a document is written from
DocumentEntries ==
    {GivenEntry(t, k, body, closed) :
        t \in {"article", "inproceedings"}, k \in CitationKeys,
        body \in DocumentBodies, closed \in BOOLEAN}

Documents == UNION {SequencesOfLength(DocumentEntries, n) : n \in 1..MaxEntries}

\* documents of one entry whose key has white space around or inside it
SpacedKeyDocuments ==
    {<<GivenEntry("article", k, <<Assignment("title", "A")>>, TRUE)>> :
        k \in {" k1", "k1 ", " k1 ", "\tk1\n ", "k 1"}}

\* the entries handed to parseEntry: the method reads the entry type (line
\* 121) and the body (line 126) independently of each other, so the inputs
\* vary the type over a few bodies, the author value over one entry and the
\* body over one type
DirectEntries ==
    {GivenEntry(t, "k1", body, TRUE) :
        t \in EntryTypeNames,
        body \in {<<>>, <<Assignment("author", "Jane Smith"), Assignment("year", "2020")>>}}
      \cup {GivenEntry("article", "k1", <<Assignment("author", v)>>, TRUE) :
              v \in AuthorValues}
      \cup {GivenEntry("article", k, body, TRUE) :
              k \in CitationKeys, body \in Bodies(Assignments)}
      \cup {GivenEntry("article", "k1", body, TRUE) : body \in Bodies(VenueAssignments)}
      \cup {GivenEntry("article", "k1", body, TRUE) : body \in Bodies(LinkAssignments)}
      \cup {GivenEntry("article", "k1", <<a>>, TRUE) : a \in CommandAssignments}
      \cup {GivenEntry("article", "k1", <<a>>, TRUE) : a \in KeywordAssignments}
      \cup {GivenEntry("article", "k1", <<a>>, TRUE) : a \in EscapeAssignments}
      \cup {GivenEntry("article", "k1", <<a>>, TRUE) : a \in BareCommandAssignments}
      \cup {GivenEntry("article", "k1", <<a>>, TRUE) : a \in IdentifierAssignments}
      \cup {GivenEntry("article", "k1", <<a>>, TRUE) : a \in YearAssignments}
      \cup {GivenEntry("article", "k1", <<a>>, TRUE) : a \in BraceAssignments}
      \cup {GivenEntry("article", "k1", <<a>>, TRUE) : a \in IdentityAssignments}

\* a record of config/publications.json
ConfigRecord(id, year, highlighted) ==
    [name \in {"id", "type", "title", "year", "authors", "journal"} |->
        CASE name = "id" -> Str(id)
          [] name = "type" -> Str("journal")
          [] name = "title" -> Str("T")
          [] name = "year" -> year
          [] name = "authors" ->
                AuthorArray(<<[name |-> "Jane Smith", is_highlighted |-> highlighted]>>)
          [] name = "journal" -> Str("Nature")]

\* a record of config/publications.json with its type, title and year
ListedRecord(id, type, title, year) ==
    [name \in {"id", "type", "title", "year"} |->
        CASE name = "id" -> Str(id)
          [] name = "type" -> Str(type)
          [] name = "title" -> Str(title)
          [] name = "year" -> Num(year)]

\* a record of config/publications.json whose title and abstract are given
\* in two languages
MultilingualRecord ==
    [name \in {"id", "type", "title", "abstract", "year"} |->
        CASE name = "id" -> Str("p1")
          [] name = "type" -> Str("journal")
          [] name = "title" ->
                LanguageMap(<< <<"en", "Deep Learning">>, <<"zh", "Shendu Xuexi">> >>)
          [] name = "abstract" ->
                LanguageMap(<< <<"en", "We study">>, <<"zh", "Women yanjiu">> >>)
          [] name = "year" -> Num(2024)]

\* what config/publications.json holds: an object with or without the
\* property publications
Configs ==
    {[hasPublications |-> FALSE, publications |-> <<>>],
     [hasPublications |-> TRUE, publications |-> <<>>],
     [hasPublications |-> TRUE,
      publications |-> <<ConfigRecord("p1", Num(2021), FALSE)>>],
     [hasPublications |-> TRUE,
      publications |-> <<ConfigRecord("p1", Num(2021), TRUE),
                         ConfigRecord("p2", Str("2023"), FALSE)>>],
     [hasPublications |-> TRUE,
      publications |-> <<ListedRecord("p1", "journal", "Beta", 2023),
                         ListedRecord("p2", "conference", "Gamma", 2022),
                         ListedRecord("p3", "journal", "Alpha", 2021)>>],
     [hasPublications |-> TRUE, publications |-> <<MultilingualRecord>>]}

NoConfig == [hasPublications |-> FALSE, publications |-> <<>>]

\* the filters of the page and the keys of the sort control
Filters == {"all", "journal", "conference"}

SortKeys == {"year", "title"}

\* the answers to fetch('config/publications.json'): no answer (the promise
\* of fetch is rejected), an answer with an error status, an answer whose body
\* is not JSON, an answer with the configuration
JSONResponses ==
    {[arrives |-> FALSE, ok |-> FALSE, valid |-> FALSE, config |-> NoConfig],
     [arrives |-> TRUE, ok |-> FALSE, valid |-> FALSE, config |-> NoConfig],
     [arrives |-> TRUE, ok |-> TRUE, valid |-> FALSE, config |-> NoConfig]}
      \cup {[arrives |-> TRUE, ok |-> TRUE, valid |-> TRUE, config |-> c] : c \in Configs}

\* the page the server sends for a file it does not have
NotFoundPage == "<html><body><h1>404</h1><p>File not found</p></body></html>"

\* the answers to fetch('assets/bibliography/publications.bib'): no answer,
\* the error page of the server with an error status, the file
BibTeXResponses ==
    {[arrives |-> FALSE, ok |-> FALSE, text |-> ""],
     [arrives |-> TRUE, ok |-> FALSE, text |-> NotFoundPage]}
      \cup {[arrives |-> TRUE, ok |-> TRUE, text |-> DocumentText(doc)] :
               doc \in SequencesOfLength(DocumentEntries, 1)}

\* document.documentElement.lang || 'en' (app.js line 930)
Languages == {"en", "zh"}

\* the files the DataLoader is asked for (activities-renderer.js lines
\* 178 and 182)
Paths == {"config/publications.json", "config/members.json"}

\* what a file holds at the time of a fetch
Contents == {"d1", "d2"}

----------------------------------------------------------------------------
(* The calls on window.bibtexParser *)

NoEntry == [type |-> "", key |-> "", content |-> ""]

NoJSON == [entry_type |-> Undefined, citation_key |-> Undefined, fields |-> <<>>]

\* this.cache.get(cacheKey) is undefined
NoCacheEntry == [present |-> FALSE, data |-> "", timestamp |-> 0]

\* a call that has not been made yet
NoCall == [state |-> "idle", path |-> "", data |-> "", hit |-> FALSE]

NoResult ==
    [threw |-> FALSE, entries |-> <<>>, fields |-> <<>>, publications |-> <<>>,
     bibtex |-> NoJSON, generated |-> ""]

Init ==
    /\ pc = "start"
    /\ call = "none"
    /\ given = <<>>
    /\ bibtexString = ""
    /\ entries = <<>>
    /\ entry = NoEntry
    /\ fields = <<>>
    /\ publications = <<>>
    /\ source = <<>>
    /\ bibtex = NoJSON
    /\ generated = ""
    /\ reparsed = <<>>
    /\ venue = Undefined
    /\ requests = <<>>
    /\ responses = <<>>
    /\ error = ""
    /\ parser = [fieldMappings |-> fieldMappings]
    /\ again = NoResult
    /\ currentFilter = "all"
    /\ sortBy = "year"
    /\ filteredPublications = <<>>
    /\ cache = [path \in Paths |-> NoCacheEntry]
    /\ now = 0
    /\ calls = [c \in 1..MaxCalls |-> NoCall]
    /\ fetched = {}

\* window.bibtexParser.parseBibTeX(bibtexText), app.js line 888
ParseBibTeX(doc) ==
    /\ pc = "start"
    /\ call' = "parseBibTeX"
    /\ given' = doc
    /\ bibtexString' = DocumentText(doc)
    /\ \E result \in {parseBibTeX(DocumentText(doc))} :
          /\ entries' = result.entries
          /\ fields' = result.fields
          /\ pc' = IF result.threw THEN "threw" ELSE "parsed"
          /\ publications' = IF result.threw THEN <<>> ELSE result.publications
    /\ UNCHANGED <<entry, source, bibtex, generated, reparsed, venue>>
    /\ UNCHANGED <<requests, responses, error, parser, again>>
    /\ UNCHANGED <<currentFilter, sortBy, filteredPublications>>
    /\ UNCHANGED loaderVars

\* parseEntry(entry) with a line 135 that also enters the unknown field in
\* this.fieldMappings
ParseEntryRegisteringFields(e) ==
    /\ pc = "start"
    /\ call' = "parseEntry"
    /\ given' = <<e>>
    /\ entry' = [type |-> e.type, key |-> e.key, content |-> BodyText(e.body)]
    /\ \E result \in {parseEntry([type |-> e.type, key |-> e.key, content |-> BodyText(e.body)])} :
          /\ fields' = <<result.fields>>
          /\ pc' = IF result.threw THEN "threw" ELSE "parsed"
          /\ publications' = IF result.threw THEN <<>> ELSE <<result.publication>>
          /\ LET registered(unknown) ==
                     [i \in 1..Len(unknown) |-> <<unknown[i].name, unknown[i].name>>]
             IN parser' =
                    [fieldMappings |->
                        parser.fieldMappings
                            \o registered(SelectSeq(result.fields,
                                   LAMBDA f : ~Truthy(Lookup(parser.fieldMappings, f.name))))]
    /\ UNCHANGED <<bibtexString, entries, source, bibtex, generated, reparsed, venue>>
    /\ UNCHANGED <<requests, responses, error, again>>
    /\ UNCHANGED <<currentFilter, sortBy, filteredPublications>>
    /\ UNCHANGED loaderVars

\* parseEntry(entry) on an entry whose content is the whole body
ParseEntry(e) ==
    /\ pc = "start"
    /\ call' = "parseEntry"
    /\ given' = <<e>>
    /\ entry' = [type |-> e.type, key |-> e.key, content |-> BodyText(e.body)]
    /\ \E result \in {parseEntry([type |-> e.type, key |-> e.key, content |-> BodyText(e.body)])} :
          /\ fields' = <<result.fields>>
          /\ pc' = IF result.threw THEN "threw" ELSE "parsed"
          /\ publications' = IF result.threw THEN <<>> ELSE <<result.publication>>
    /\ UNCHANGED <<bibtexString, entries, source, bibtex, generated, reparsed, venue>>
    /\ UNCHANGED <<requests, responses, error, parser, again>>
    /\ UNCHANGED <<currentFilter, sortBy, filteredPublications>>
    /\ UNCHANGED loaderVars

\* generateBibTeX(publication) for one of the records
GenerateBibTeX(i) ==
    /\ pc = "parsed"
    /\ i \in 1..Len(publications)
    /\ source' = publications[i]
    /\ \E json \in {toJSON(publications[i])} :
          /\ bibtex' = json
          /\ generated' = GenerateFrom(json)
    /\ pc' = "generated"
    /\ UNCHANGED <<call, given, bibtexString, entries, entry, fields, publications, reparsed,
                   venue>>
    /\ UNCHANGED <<requests, responses, error, parser, again>>
    /\ UNCHANGED <<currentFilter, sortBy, filteredPublications>>
    /\ UNCHANGED loaderVars

\* the generated text goes back through parseBibTeX
ParseGenerated ==
    /\ pc = "generated"
    /\ \E result \in {parseBibTeX(generated)} :
          /\ pc' = IF result.threw THEN "threw" ELSE "reparsed"
          /\ reparsed' = IF result.threw THEN <<>> ELSE result.publications
    /\ UNCHANGED <<call, given, bibtexString, entries, entry, fields, publications,
                   source, bibtex, generated, venue>>
    /\ UNCHANGED <<requests, responses, error, parser, again>>
    /\ UNCHANGED <<currentFilter, sortBy, filteredPublications>>
    /\ UNCHANGED loaderVars

\* getDisplayVenue(pub) for one of the records (app.js line 922)
GetDisplayVenue(i) ==
    /\ pc = "parsed"
    /\ i \in 1..Len(publications)
    /\ source' = publications[i]
    /\ venue' = getDisplayVenue(publications[i])
    /\ pc' = "displayed"
    /\ UNCHANGED <<call, given, bibtexString, entries, entry, fields, publications, bibtex,
                   generated, reparsed>>
    /\ UNCHANGED <<requests, responses, error, parser, again>>
    /\ UNCHANGED <<currentFilter, sortBy, filteredPublications>>
    /\ UNCHANGED loaderVars

\* after the other calls the first call is made once more with the same
\* argument, and so are toJSON and generateBibTeX
ParseAgain ==
    /\ pc = "reparsed"
    /\ call \in {"parseBibTeX", "parseEntry"}
    /\ LET single(result) ==
               [threw |-> result.threw, entries |-> <<>>, fields |-> <<result.fields>>,
                publications |-> <<result.publication>>]
           all(result, json) ==
               [threw |-> result.threw, entries |-> result.entries, fields |-> result.fields,
                publications |-> result.publications,
                bibtex |-> json, generated |-> GenerateFrom(json)]
       IN again' = IF call = "parseBibTeX"
                   THEN all(parseBibTeX(bibtexString), toJSON(source))
                   ELSE all(single(parseEntry(entry)), toJSON(source))
    /\ pc' = "repeated"
    /\ UNCHANGED <<call, given, bibtexString, entries, entry, fields, publications, source,
                   bibtex, generated, reparsed, venue, requests, responses, error, parser>>
    /\ UNCHANGED <<currentFilter, sortBy, filteredPublications>>
    /\ UNCHANGED loaderVars

\* init calls loadPublications, which asks the DataLoader for
\* config/publications.json (app.js lines 864 and 879)
LoadPublications ==
    /\ pc = "start"
    /\ call' = "loadPublications"
    /\ requests' = <<"config/publications.json">>
    /\ pc' = "loadingJSON"
    /\ UNCHANGED <<given, bibtexString, entries, entry, fields, publications, source,
                   bibtex, generated, reparsed, venue, responses, error, parser, again>>
    /\ UNCHANGED <<currentFilter, sortBy, filteredPublications>>
    /\ UNCHANGED loaderVars

\* the await of app.js line 879 is over: with the configuration the records
\* are config.publications || [] and processPublications runs (lines 880 and
\* 896); with an exception the catch block fetches the BibTeX file (line 886)
JSONLoaded(response, lang) ==
    /\ pc = "loadingJSON"
    /\ responses' = Append(responses, [arrives |-> response.arrives, ok |-> response.ok,
                                        valid |-> response.valid])
    /\ \E config \in {loadJSON(response)} :
          IF config.threw
          THEN /\ requests' = Append(requests, "assets/bibliography/publications.bib")
               /\ pc' = "loadingBibTeX"
               /\ UNCHANGED <<publications, filteredPublications>>
          ELSE /\ publications' =
                     processPublications(IF config.data.hasPublications
                                         THEN config.data.publications ELSE <<>>, lang)
               \* line 897
               /\ filteredPublications' = publications'
               /\ pc' = "loaded"
               /\ UNCHANGED requests
    /\ UNCHANGED <<call, given, bibtexString, entries, entry, fields, source, bibtex,
                   generated, reparsed, venue, error, parser, again, currentFilter, sortBy>>
    /\ UNCHANGED loaderVars

\* the awaits of app.js lines 886 and 887 are over: without an answer the
\* inner catch block raises the Error of line 891 and init shows the error
\* (line 869); with an answer, whatever its status, its text is parsed (line
\* 888) and processPublications runs (line 896)
BibTeXLoaded(response, lang) ==
    /\ pc = "loadingBibTeX"
    \* a text needs no decoding: the body is valid whenever the status is ok
    /\ responses' = Append(responses, [arrives |-> response.arrives, ok |-> response.ok,
                                        valid |-> response.ok])
    /\ IF ~response.arrives
       THEN /\ error' = FailedToLoad
            /\ pc' = "error"
            /\ UNCHANGED <<bibtexString, entries, fields, publications, filteredPublications>>
       ELSE /\ bibtexString' = response.text
            /\ \E result \in {parseBibTeX(response.text)} :
                  /\ entries' = result.entries
                  /\ fields' = result.fields
                  /\ error' = IF result.threw THEN FailedToLoad ELSE ""
                  /\ pc' = IF result.threw THEN "error" ELSE "loaded"
                  /\ publications' = IF result.threw THEN <<>>
                                      ELSE processPublications(result.publications, lang)
                  \* line 897
                  /\ filteredPublications' = publications'
    /\ UNCHANGED <<call, given, entry, source, bibtex, generated, reparsed, venue, requests,
                   parser, again, currentFilter, sortBy>>
    /\ UNCHANGED loaderVars

\* setFilter(filter), app.js lines 1003-1014
SetFilter(filter) ==
    /\ pc = "loaded"
    /\ currentFilter' = filter
    /\ filteredPublications' = applyFilter(publications, filter)
    /\ UNCHANGED <<pc, call, given, bibtexString, entries, entry, fields, publications,
                   source, bibtex, generated, reparsed, venue, requests, responses, error,
                   parser, again, sortBy>>
    /\ UNCHANGED loaderVars

\* setSorting(sortBy), app.js lines 1032-1036
SetSorting(by) ==
    /\ pc = "loaded"
    /\ sortBy' = by
    /\ filteredPublications' = sortPublications(filteredPublications, by)
    /\ UNCHANGED <<pc, call, given, bibtexString, entries, entry, fields, publications,
                   source, bibtex, generated, reparsed, venue, requests, responses, error,
                   parser, again, currentFilter>>
    /\ UNCHANGED loaderVars

Next ==
    \/ \E doc \in Documents \cup SpacedKeyDocuments : ParseBibTeX(doc)
    \/ \E e \in DirectEntries : ParseEntry(e)
    \/ \E i \in 1..MaxEntries : GenerateBibTeX(i)
    \/ ParseGenerated
    \/ \E i \in 1..MaxEntries : GetDisplayVenue(i)
    \/ ParseAgain
    \/ LoadPublications
    \/ \E response \in JSONResponses, lang \in Languages : JSONLoaded(response, lang)
    \/ \E response \in BibTeXResponses, lang \in Languages : BibTeXLoaded(response, lang)
    \/ \E filter \in Filters : SetFilter(filter)
    \/ \E by \in SortKeys : SetSorting(by)

Spec == Init /\ [][Next]_vars

----------------------------------------------------------------------------
(* DataLoader (src/js/activities-renderer.js): concurrent calls of loadJSON *)

\* this.cacheTimeout (line 139), in milliseconds
cacheTimeout == 5 * 60 * 1000

\* the step of the clock: half the timeout
Tick == cacheTimeout \div 2

\* line 146 with the comparison turned round
FreshReversed(cached, time) == cached.present /\ time - cached.timestamp > cacheTimeout

\* line 146: cached && Date.now() - cached.timestamp < this.cacheTimeout
Fresh(cached, time) == cached.present /\ time - cached.timestamp < cacheTimeout

\* loadJSON(path) up to its first await (lines 143-151): the data of a
\* fresh entry is returned at once, otherwise the file is fetched
LoadJSON(c, path) ==
    /\ calls[c].state = "idle"
    /\ IF Fresh(cache[path], now)
       THEN /\ calls' = [calls EXCEPT ![c] = [state |-> "returned", path |-> path,
                                               data |-> cache[path].data, hit |-> TRUE]]
            /\ UNCHANGED requests
       ELSE /\ calls' = [calls EXCEPT ![c] = [state |-> "fetching", path |-> path,
                                               data |-> "", hit |-> FALSE]]
            /\ requests' = Append(requests, path)
    /\ UNCHANGED <<cache, now, fetched>>
    /\ UNCHANGED pageVars

\* the await of line 151 is over: no answer or a status that is not ok
\* raises (lines 152-154 and 163-165), an ok answer goes on to response.json()
FetchSettled(c, arrives, ok) ==
    /\ calls[c].state = "fetching"
    /\ calls' = [calls EXCEPT ![c].state = IF arrives /\ ok THEN "parsing" ELSE "threw"]
    /\ UNCHANGED <<cache, now, fetched, requests>>
    /\ UNCHANGED pageVars

\* the await of line 155 is over: a body that is not JSON raises, the data
\* of a body that is JSON are put in the cache with the time and returned
\* (lines 157-162)
JSONSettled(c, valid, data) ==
    /\ calls[c].state = "parsing"
    /\ IF valid
       THEN /\ cache' = [cache EXCEPT ![calls[c].path] =
                            [present |-> TRUE, data |-> data, timestamp |-> now]]
            /\ fetched' = fetched \cup {[path |-> calls[c].path, data |-> data]}
            /\ calls' = [calls EXCEPT ![c].state = "returned", ![c].data = data]
       ELSE /\ calls' = [calls EXCEPT ![c].state = "threw"]
            /\ UNCHANGED <<cache, fetched>>
    /\ UNCHANGED <<now, requests>>
    /\ UNCHANGED pageVars

\* clearCache(), lines 197-199
ClearCache ==
    /\ cache' = [path \in Paths |-> NoCacheEntry]
    /\ UNCHANGED <<now, calls, fetched, requests>>
    /\ UNCHANGED pageVars

\* time passes
TickClock ==
    /\ now < MaxTicks * Tick
    /\ now' = now + Tick
    /\ UNCHANGED <<cache, calls, fetched, requests>>
    /\ UNCHANGED pageVars

CacheNext ==
    \/ \E c \in 1..MaxCalls, path \in Paths : LoadJSON(c, path)
    \/ \E c \in 1..MaxCalls, arrives \in BOOLEAN, ok \in BOOLEAN : FetchSettled(c, arrives, ok)
    \/ \E c \in 1..MaxCalls, valid \in BOOLEAN, data \in Contents : JSONSettled(c, valid, data)
    \/ ClearCache
    \/ TickClock

CacheSpec == Init /\ [][CacheNext]_vars

----------------------------------------------------------------------------
(* The properties *)

MappedFieldNames == {fieldMappings[i][1] : i \in 1..Len(fieldMappings)}

\* the first call has returned (it did not raise)
Returned(method) == call = method /\ pc \in {"parsed", "generated", "reparsed"}

\* the first call is over, by a return or by an exception
Finished(method) == call = method /\ pc # "start"

RecognizedEntryTypes == {typeMapping[i][1] : i \in 1..Len(typeMapping)}

WellFormed(doc) == \A i \in 1..Len(doc) : doc[i].closed

OnlyMappedFields(doc) ==
    \A i \in 1..Len(doc) : \A j \in 1..Len(doc[i].body) :
        doc[i].body[j].name \in MappedFieldNames

ClosedEntries(doc) == SelectSeq(doc, LAMBDA e : e.closed)

\* the records are those of the entries of doc, one each and in their order
RecordsOf(doc) ==
    /\ Len(publications) = Len(doc)
    /\ \A i \in 1..Len(doc) :
          /\ Get(publications[i], "id") = Str(doc[i].key)
          /\ Get(publications[i], "type") = mapEntryType(doc[i].type)

\* C1: a record parsed from a well-formed entry of a known type with mapped
\* fields only, written by generateBibTeX and parsed again by parseBibTeX, comes back as
\* exactly one record with the same type, author_string, year, doi and url.
C1_RoundTripIdentity ==
    (/\ pc = "reparsed"
     /\ WellFormed(given)
     /\ OnlyMappedFields(given)
     /\ \A i \in 1..Len(given) : given[i].type \in RecognizedEntryTypes)
        => /\ Len(reparsed) = 1
           /\ \A name \in {"type", "author_string", "year", "doi", "url"} :
                 Get(reparsed[1], name) = Get(source, name)

\* C2: the body extractEntries returns for a well-formed entry holds every
\* assignment of the entry, and the record of parseBibTeX carries every one
\* of those fields.
C2_BodyHoldsEveryAssignment ==
    (Finished("parseBibTeX") /\ Len(given) = 1 /\ WellFormed(given))
        => /\ Len(entries) >= 1
           /\ Len(publications) >= 1
           /\ \A j \in 1..Len(given[1].body) :
                 /\ includes(entries[1].content, AssignmentText(given[1].body[j]))
                 /\ HasField(fields[1], given[1].body[j].name)
                 /\ StringOf(Lookup(fieldMappings, given[1].body[j].name))
                        \in DOMAIN publications[1]

\* C3: a document of N well-formed entries gives exactly N records, the i-th
\* with the key and the type of the i-th entry, duplicate keys included.
C3_OneRecordPerEntryInOrder ==
    (Finished("parseBibTeX") /\ WellFormed(given)) => RecordsOf(given)

\* C4: in a document of several entries of which one lacks its closing
\* brace, that entry gives no record and every other entry gives its own.
C4_GracefulDegradation ==
    (/\ Finished("parseBibTeX")
     /\ Len(given) >= 2
     /\ Len(ClosedEntries(given)) = Len(given) - 1)
        => RecordsOf(ClosedEntries(given))

\* C5: no call of the parser ends in an exception, whatever the shape of
\* the entry.
C5_NeverThrows == pc # "threw"

\* C6: the type of every record parseEntry returns is a member of the fixed
\* vocabulary, for every entry type string.
C6_TypeInVocabulary ==
    Returned("parseEntry")
        => /\ Get(publications[1], "type").kind = "string"
           /\ Get(publications[1], "type").str \in InternalTypes

\* C7: for every internal type t, the entry type generateBibTeX writes maps
\* back to t, and conference is written as inproceedings.
C7_TypeRoundTrip ==
    (/\ pc \in {"generated", "reparsed"}
     /\ Get(source, "type").kind = "string"
     /\ Get(source, "type").str \in InternalTypes)
        => /\ mapEntryType(StringOf(bibtex.entry_type)) = Get(source, "type")
           /\ (Get(source, "type") = Str("conference")
                  => bibtex.entry_type = Str("inproceedings"))

\* C8: parseEntry stores every field whose name is not in the mapping table
\* on the record, under that name, with the value of the field table.
C8_UnknownFieldPassthrough ==
    Finished("parseEntry")
        => /\ pc # "threw"
           /\ \A j \in 1..Len(fields[1]) :
                 fields[1][j].name \notin MappedFieldNames
                     => Get(publications[1], fields[1][j].name) = Str(fields[1][j].value)

\* C9: an author field whose value is k names joined by "and" in any letter
\* case gives authors equal to those k names in order, none highlighted, and
\* author_string equal to the names joined by ", ".
C9_AuthorSplitting ==
    (Finished("parseEntry") /\ HasField(fields[1], "author"))
        => \A names \in AuthorLists : \A sep \in AuthorSeparators :
              FieldValue(fields[1], "author") = join(names, sep)
                  => /\ pc # "threw"
                     /\ Get(publications[1], "authors")
                            = AuthorArray([i \in 1..Len(names) |->
                                              [name |-> names[i], is_highlighted |-> FALSE]])
                     /\ Get(publications[1], "author_string") = Str(join(names, ", "))

\* a record made from several names that an upper-case AND separates
C9_Witness ==
    /\ Returned("parseEntry")
    /\ HasField(fields[1], "author")
    /\ includes(FieldValue(fields[1], "author"), " AND ")
    /\ Len(Get(publications[1], "authors").authors) >= 2
    /\ "author_string" \in DOMAIN publications[1]

\* C10: the record of an entry without an author field has authors equal to
\* the empty list.
C10_AuthorsEmptyWithoutAuthorField ==
    (Finished("parseEntry") /\ ~ HasField(fields[1], "author"))
        => /\ pc # "threw"
           /\ "authors" \in DOMAIN publications[1]
           /\ Get(publications[1], "authors") = AuthorArray(<<>>)

\* the first call was parseEntry, it returned, and getDisplayVenue has been
\* applied to its record
Displayed == call = "parseEntry" /\ pc = "displayed"

\* C11: for an entry that sets both journal and booktitle to a name, the
\* display_venue of the record is the journal, and so is the venue
\* getDisplayVenue returns for the record.
C11_JournalWins ==
    (/\ Finished("parseEntry")
     /\ HasField(fields[1], "journal") /\ FieldValue(fields[1], "journal") # ""
     /\ HasField(fields[1], "booktitle"))
        => /\ pc # "threw"
           /\ Get(publications[1], "display_venue") = Str(FieldValue(fields[1], "journal"))
           /\ Displayed => venue = Str(FieldValue(fields[1], "journal"))

\* a record of an entry with a journal and a booktitle, after getDisplayVenue
C11_Witness ==
    /\ Displayed
    /\ HasField(fields[1], "journal") /\ FieldValue(fields[1], "journal") = "Nature"
    /\ HasField(fields[1], "booktitle") /\ FieldValue(fields[1], "booktitle") = "Some Conf"
    /\ venue = Str("Nature")

\* C12: for the record of an entry without journal and booktitle the display
\* venue is "PhD Thesis, " and the school when school is set, otherwise the
\* howpublished value when that is set, otherwise "Unknown Venue".
C12_VenueFallbackChain ==
    (/\ Displayed
     /\ ~ HasField(fields[1], "journal")
     /\ ~ HasField(fields[1], "booktitle"))
        => venue = (IF HasField(fields[1], "school")
                    THEN Str("PhD Thesis, " \o FieldValue(fields[1], "school"))
                    ELSE IF HasField(fields[1], "howpublished")
                    THEN Str(FieldValue(fields[1], "howpublished"))
                    ELSE Str("Unknown Venue"))

\* C13: after parseEntry a record with a doi and no url field has the url
\* "https://doi.org/" followed by the doi, also when arxiv is present; a
\* record whose entry sets url keeps that url.
C13_GeneratedDoiLink ==
    Returned("parseEntry")
        => /\ (HasField(fields[1], "url") /\ FieldValue(fields[1], "url") # "")
                 => Get(publications[1], "url") = Str(FieldValue(fields[1], "url"))
           /\ (/\ ~ HasField(fields[1], "url")
               /\ HasField(fields[1], "doi") /\ FieldValue(fields[1], "doi") # "")
                 => Get(publications[1], "url")
                        = Str("https://doi.org/" \o FieldValue(fields[1], "doi"))

\* a record of an entry with doi and arxiv and no url, and a record of an
\* entry with url and doi
C13_Witness ==
    /\ Returned("parseEntry")
    /\ HasField(fields[1], "doi")
    /\ \/ /\ HasField(fields[1], "arxiv") /\ ~ HasField(fields[1], "url")
          /\ Get(publications[1], "url") = Str("https://doi.org/10.1/x")
       \/ /\ HasField(fields[1], "url")
          /\ Get(publications[1], "url") = Str("https://example.org/p")

\* C14: the record of an entry with an arxiv field and neither doi nor url
\* has the url "https://arxiv.org/abs/" followed by the identifier.
C14_GeneratedArxivLink ==
    (/\ Finished("parseEntry")
     /\ HasField(fields[1], "arxiv") /\ FieldValue(fields[1], "arxiv") # ""
     /\ ~ HasField(fields[1], "doi")
     /\ ~ HasField(fields[1], "url"))
        => /\ pc # "threw"
           /\ Get(publications[1], "url")
                  = Str("https://arxiv.org/abs/" \o FieldValue(fields[1], "arxiv"))

\* the value with the command replaced by its bare argument, without braces
\* and with the white space normalized
BareArgument(t) == trim(NormalizeSpace(RemoveChars(t.pre \o t.arg \o t.post, Braces)))

\* C15: a title or abstract value that contains \name{arg} gives a record
\* value with the occurrence replaced by the bare arg, no braces left and the
\* white space normalized.
C15_CommandWithArgument ==
    Finished("parseEntry")
        => \A j \in 1..Len(given[1].body) : \A t \in CommandValues :
              (/\ given[1].body[j].name \in {"title", "abstract"}
               /\ given[1].body[j].value = CommandText(t))
                  => /\ pc # "threw"
                     /\ Get(publications[1], given[1].body[j].name) = Str(BareArgument(t))

\* C16: raw_bibtex of every record parseBibTeX returns is the text of its
\* entry in the document, character for character.
C16_RawBibtexVerbatim ==
    (Finished("parseBibTeX") /\ WellFormed(given))
        => \A i \in 1..Len(publications) :
              /\ i <= Len(given)
              /\ Get(publications[i], "raw_bibtex") = Str(EntryText(given[i]))

\* generateBibTeX has returned for the record source
Generated == pc \in {"generated", "reparsed"}

\* present and not empty: not the empty string, the empty sequence, 0, null
\* or undefined
NonEmpty(v) ==
    CASE v.kind = "undefined" -> FALSE
      [] v.kind = "string" -> v.str # ""
      [] v.kind = "number" -> v.num # 0
      [] v.kind = "array" -> Len(v.items) + Len(v.authors) > 0
      [] OTHER -> TRUE

\* C17: generateBibTeX emits a field only for an attribute that is present
\* and not empty, and no emitted field has an empty value.
C17_OmissionPolicy ==
    Generated
        => /\ \A j \in 1..Len(bibtex.fields) :
                 /\ NonEmpty(Get(source, StringOf(Lookup(fieldMappings, bibtex.fields[j].name))))
                 /\ bibtex.fields[j].value # ""
           /\ ~ includes(generated, " = {}")

\* the lines of a text
RECURSIVE LinesOf(_, _)
LinesOf(s, from) ==
    LET feed == IndexOfAny(s, {"\n"}, from)
    IN IF feed = 0 THEN <<SubSeq(s, from, Len(s))>>
       ELSE <<SubSeq(s, from, feed - 1)>> \o LinesOf(s, feed + 1)

\* the place of a field name in the mapping table
MappingIndex(name) == CHOOSE i \in 1..Len(fieldMappings) : fieldMappings[i][1] = name

\* C18: the text of generateBibTeX has the entry head, then one line for each
\* emitted field in the order of the mapping table, each ending with a comma
\* except the last, then the closing brace.
C18_SerializerLayout ==
    Generated
        => LET head == "@" \o StringOf(bibtex.entry_type) \o "{"
                           \o StringOf(bibtex.citation_key) \o ","
               \* the head is lines[1]; a key may hold line feeds of its own
               lines == <<head>> \o LinesOf(generated, Len(head) + 2)
               count == Len(bibtex.fields)
           IN /\ startsWith(generated, head \o "\n")
              /\ Len(lines) = count + 2
              /\ lines[count + 2] = "}"
              /\ \A j \in 1..count :
                    /\ startsWith(lines[j + 1], "  " \o bibtex.fields[j].name \o " = {")
                    /\ endsWith(lines[j + 1], IF j = count THEN "}" ELSE "},")
                    /\ j = count => ~ endsWith(lines[j + 1], ",")
                    /\ \A k \in 1..count :
                          j < k => MappingIndex(bibtex.fields[j].name)
                                      < MappingIndex(bibtex.fields[k].name)

\* the text for an entry that names doi before year: year comes first, and
\* the generated url last
C18_Witness ==
    /\ Generated
    /\ Len(given) = 1 /\ Len(given[1].body) = 2
    /\ given[1].body[1].name = "doi" /\ given[1].body[2].name = "year"
    /\ generated = "@article{k1,\n  year = {2020},\n  doi = {10.1/x},\n"
                       \o "  url = {https://doi.org/10.1/x}\n}"

\* loadPublications is over, by a return or by the Error it raises
Loaded == call = "loadPublications" /\ pc \in {"loaded", "error"}

\* the source did not deliver its file: no answer, an error status, or a
\* body that is not what the file holds
SourceFailed(response) == ~(response.arrives /\ response.ok /\ response.valid)

\* C19: loadPublications asks for the JSON file first and for the BibTeX file
\* only after the JSON source failed, and it raises "Failed to load
\* publications from any source" (init then shows the error) exactly when
\* both sources failed.
C19_ErrorIffBothSourcesFailed ==
    /\ call = "loadPublications" =>
          /\ requests # <<>> /\ requests[1] = "config/publications.json"
          /\ Len(requests) > 1 =>
                /\ requests[2] = "assets/bibliography/publications.bib"
                /\ responses # <<>> /\ SourceFailed(responses[1])
          /\ (responses # <<>> /\ ~SourceFailed(responses[1])) => Len(requests) = 1
    /\ Loaded =>
          ((error = FailedToLoad /\ pc = "error")
              <=> \A i \in 1..2 : i \in 1..Len(responses) /\ SourceFailed(responses[i]))

\* the first call, generateBibTeX, parseBibTeX of the generated text and the
\* second round of calls are over
Repeated == pc = "repeated"

\* the argument parseEntry was called with
EntryGiven(e) == [type |-> e.type, key |-> e.key, content |-> BodyText(e.body)]

WholeEntryOf(text) ==
    LET entryOf(cleaned, open, comma, close) ==
            [type |-> SubSeq(cleaned, 2, open - 1),
             key |-> SubSeq(cleaned, open + 1, comma - 1),
             content |-> trim(SubSeq(cleaned, comma + 1, close - 1))]
        whole(cleaned) ==
            entryOf(cleaned, IndexOfAny(cleaned, {"{"}, 1), IndexOfAny(cleaned, {","}, 1),
                    Last(cleaned, {"}"}, TRUE, 1, Len(cleaned)))
    IN whole(trim(RemoveEmptyLines(RemoveComments(text), 1)))

EscapedChars == {"%", "&", "#"}

\* every escaped character of s has a backslash before it
Escaped(s) ==
    \A i \in 1..Len(s) : CharAt(s, i) \in EscapedChars => i > 1 /\ CharAt(s, i - 1) = "\\"

\* C21: for a record whose title, note or url is a string with a percent
\* sign, an ampersand or a hash, generateBibTeX writes each of them with a
\* backslash before it, and the generated entry, cleaned as extractEntries
\* cleans it and parsed by parseEntry, has the same value for that field.
C21_EscapedRoundTrip ==
    (call = "parseEntry" /\ Generated) =>
        \A name \in {"title", "note", "url"} :
            (/\ Get(source, name).kind = "string"
             /\ \E i \in 1..Len(Get(source, name).str) :
                   CharAt(Get(source, name).str, i) \in EscapedChars)
                => /\ Escaped(generated)
                   /\ Get(parseEntry(WholeEntryOf(generated)).publication, name)
                         = Get(source, name)

\* the value without the command token, the white space normalized
WithoutCommand(t) == trim(NormalizeSpace(t.pre \o t.post))

\* C22: a title or abstract value that contains a bare \name token (a
\* backslash and one or more letters, no brace argument) gives a record value
\* from which the whole token is gone: none of the letters of name is left.
C22_BareCommandRemoved ==
    Finished("parseEntry")
        => \A j \in 1..Len(given[1].body) : \A t \in BareCommandValues :
              (/\ given[1].body[j].name \in {"title", "abstract"}
               /\ given[1].body[j].value = BareCommandText(t))
                  => /\ pc # "threw"
                     /\ Get(publications[1], given[1].body[j].name) = Str(WithoutCommand(t))

\* C23: for each of the fields url, doi, arxiv, pmid, pmcid, volume, number
\* and pages, the value parseEntry stores on the record (under the name the
\* field is mapped to) is the value of the field table of parseFields,
\* character for character.
C23_IdentifiersUnmodified ==
    Returned("parseEntry")
        => \A j \in 1..Len(given[1].body) :
              given[1].body[j].name \in IdentifierFields
                  => /\ HasField(fields[1], given[1].body[j].name)
                     /\ Get(publications[1],
                            StringOf(Lookup(fieldMappings, given[1].body[j].name)))
                           = Str(FieldValue(fields[1], given[1].body[j].name))

\* the text is a decimal numeral
Numeral(text) == text # "" /\ \A i \in 1..Len(text) : CharAt(text, i) \in Digits

\* C24: the year of the record is the integer a year value denotes when the
\* value is a numeral ("0" included), and the value itself, as a string, when
\* it is no number.
C24_YearParsing ==
    Returned("parseEntry")
        => \A j \in 1..Len(given[1].body) :
              given[1].body[j].name = "year"
                  => IF Numeral(given[1].body[j].value)
                     THEN Get(publications[1], "year")
                              = Num(DigitsValue(given[1].body[j].value, 10))
                     ELSE parseInt(given[1].body[j].value).isNaN
                              => Get(publications[1], "year") = Str(given[1].body[j].value)

\* C25: the key extractEntries returns for an entry is the text between the
\* opening brace and the first comma without the white space around it.
C25_KeyTrimmed ==
    (Finished("parseBibTeX") /\ Len(given) = 1 /\ given[1].closed)
        => /\ entries # <<>>
           /\ entries[1].key = trim(given[1].key)

\* the number of characters c among the first i characters of s
CountOf(s, c, i) == Cardinality({k \in 1..i : CharAt(s, k) = c})

\* every closing brace of s closes a brace opened before it, and none stays open
Balanced(s) ==
    /\ \A i \in 1..Len(s) : CountOf(s, "}", i) <= CountOf(s, "{", i)
    /\ CountOf(s, "}", Len(s)) = CountOf(s, "{", Len(s))

\* the first character of s is a brace that the last character closes
Wrapped(s) ==
    /\ Len(s) >= 2 /\ CharAt(s, 1) = "{" /\ CharAt(s, Len(s)) = "}"
    /\ \A i \in 1..(Len(s) - 1) : CountOf(s, "}", i) < CountOf(s, "{", i)

\* C26: parseFields removes the first and the last character of a value only
\* when the value is wrapped in one outer brace pair; a value whose first and
\* last brace belong to different groups keeps its braces, balanced.
C26_OuterBraceStripping ==
    Finished("parseEntry")
        => \A j \in 1..Len(given[1].body) :
              given[1].body[j] \in BraceAssignments
                  => /\ Balanced(FieldValue(fields[1], given[1].body[j].name))
                     /\ FieldValue(fields[1], given[1].body[j].name)
                           = IF Wrapped(given[1].body[j].value)
                             THEN SubSeq(given[1].body[j].value, 2,
                                         Len(given[1].body[j].value) - 1)
                             ELSE given[1].body[j].value

\* C27: whatever the names of the fields of the body, the record parseEntry
\* returns has the citation key as its id, mapEntryType of the entry type as
\* its type, and the raw_bibtex built from the entry.
C27_IdentityAttributesKept ==
    Returned("parseEntry")
        => /\ Get(publications[1], "id") = Str(entry.key)
           /\ Get(publications[1], "type") = mapEntryType(entry.type)
           /\ Get(publications[1], "raw_bibtex")
                 = Str("@" \o entry.type \o "{" \o entry.key \o ", " \o entry.content \o "}")

\* the list is in the order of the sort key by: no record comes after one
\* that the comparison puts behind it
OrderedBy(pubs, by) ==
    \A i \in 1..Len(pubs) : \A j \in (i + 1)..Len(pubs) : ~Precedes(pubs[j], pubs[i], by)

\* C28: once the publications are loaded, after any setFilter and setSorting
\* calls filteredPublications holds exactly the publications whose type is
\* currentFilter (all of them for the filter all) and is in the order of
\* sortBy: year descending, or title ascending.
C28_FilteredAndSorted ==
    (call = "loadPublications" /\ pc = "loaded")
        => /\ Len(filteredPublications) = Len(applyFilter(publications, currentFilter))
           /\ \A i \in 1..Len(publications) :
                 (\E j \in 1..Len(filteredPublications) :
                      filteredPublications[j] = publications[i])
                     <=> (currentFilter = "all"
                             \/ Get(publications[i], "type") = Str(currentFilter))
           /\ OrderedBy(filteredPublications, sortBy)

\* C29: for a record whose title (or abstract) is a mapping from language
\* code to text, the BibTeX text generateBibTeX writes for it (kept as the
\* record's bibtex by processPublications) has a title field whose value is
\* one of the texts of the mapping.
C29_MultilingualTitleSerialized ==
    (call = "loadPublications" /\ pc = "loaded")
        => \A i \in 1..Len(publications) : \A name \in {"title", "abstract"} :
              Get(publications[i], name).kind = "object"
                  => \E k \in 1..Len(Get(publications[i], name).map) :
                        includes(Get(publications[i], "bibtex").str,
                                 "  " \o name \o " = {"
                                     \o Get(publications[i], name).map[k][2] \o "}")

\* C30: in every interleaving of loadJSON calls, a path has a cache entry
\* only if a fetch of that path was ok and parsed, and the entry holds the
\* data of such a fetch; a call that fails leaves the cache as it was; and a
\* call that finds an entry younger than cacheTimeout returns the data of the
\* entry without fetching.
C30_CacheHoldsSuccessfulLoads ==
    /\ [](\A path \in Paths :
             cache[path].present
                 => [path |-> path, data |-> cache[path].data] \in fetched)
    /\ [][\A c \in 1..MaxCalls :
             /\ (calls[c].state # "threw" /\ calls'[c].state = "threw") => cache' = cache
             /\ (/\ calls[c].state = "idle" /\ calls'[c].state # "idle"
                 /\ cache[calls'[c].path].present
                 /\ now - cache[calls'[c].path].timestamp < cacheTimeout)
                    => /\ calls'[c].state = "returned"
                       /\ calls'[c].hit
                       /\ calls'[c].data = cache[calls'[c].path].data
                       /\ requests' = requests]_vars

\* two calls for the same path: the first fetched the file and filled the
\* cache, the second, made before the entry was five minutes old, got the
\* data of the entry without a fetch
C30_Witness ==
    \E c, d \in 1..MaxCalls :
        /\ calls[c].state = "returned" /\ ~calls[c].hit
        /\ calls[d].state = "returned" /\ calls[d].hit
        /\ calls[c].path = calls[d].path
        /\ calls[d].data = calls[c].data
        /\ now > 0
        /\ requests = <<calls[c].path>>

====
